---- MODULE Spec2Model ----
(***************************************************************************)
(* Agent (src/src/augmented/agent.py) and MCPClient                        *)
(* (src/src/augmented/mcp_client.py) as a state machine.                   *)
(*                                                                         *)
(* One caller drives one Agent: it awaits invoke(yaml) and cleanup() one   *)
(* after the other.  Every await of the code (MCPClient.init, llm.chat,    *)
(* MCPClient.call_tool, llm.chat_with_tool_results) is a step of its own;  *)
(* the code between two awaits is part of the step that precedes it.       *)
(* The tool providers, the environment and the chat model are inputs:      *)
(* their answers are drawn from small sets.                                *)
(***************************************************************************)
EXTENDS Naturals, Sequences, FiniteSets, TLC

\* ------------------------------------------------------------ bounds
MaxServers == 2      \* longest mcp_servers list of a YAML document
MaxCalls == 2        \* most tool calls in one model response
MaxRounds == 2       \* most model responses with tool calls in one invoke
MaxInvokes == 2      \* most invoke() calls on the Agent
MaxCleanups == 2     \* most cleanup() calls on the Agent, or on one client
MaxClients == 1      \* most MCPClient instances used on their own

\* ------------------------------------------------------------ values
\* Python's None, and the value dict.get gives for a missing key.
NoVal == "~"

\* `not v` for the values a YAML field takes here.
Falsy(v) == v \in {NoVal, ""}

SeqsUpTo(S, n) == UNION {[1..k -> S] : k \in 0..n}

Range(s) == {s[i] : i \in DOMAIN s}

Last(s) == s[Len(s)]

\* ------------------------------------------------------------ inputs
\* A connection descriptor: one entry of mcp_servers.
Desc(type, url, token, token_env, preset_ref, command) ==
  [type |-> type, url |-> url, token |-> token, token_env |-> token_env,
   preset_ref |-> preset_ref, command |-> command]

DRemoteBoth == Desc("remote", "http://u1", "tok", "TOKEN_ENV", NoVal, NoVal)
DRemoteToken == Desc("remote", "http://u1", "tok", NoVal, NoVal, NoVal)
DRemoteNoUrl == Desc("remote", NoVal, "tok", NoVal, NoVal, NoVal)
DLocalPreset == Desc("local", NoVal, NoVal, NoVal, "filesystem", NoVal)
DLocalBadPreset == Desc("local", NoVal, NoVal, NoVal, "nosuch", "cmd")
DLocalCommand == Desc("local", NoVal, NoVal, NoVal, NoVal, "cmd")
DLocalNoCommand == Desc("local", NoVal, NoVal, NoVal, NoVal, NoVal)
DUnknownType == Desc("ftp", "http://u1", NoVal, NoVal, NoVal, "cmd")

Descriptors ==
  {DRemoteBoth, DRemoteToken, DRemoteNoUrl, DLocalPreset, DLocalBadPreset,
   DLocalCommand, DLocalNoCommand, DUnknownType}

\* The attributes of PresetMcpTools the repository uses.
KnownPresets == {"filesystem", "fetch"}

\* command of McpToolInfo.to_common_params() for a preset.
PresetCommand(p) == "preset"

\* os.environ.get(name): the variable's value, or None when it is unset.
EnvValues == {NoVal, "env-tok"}

\* The tool names a provider publishes in list_tools, by its transport.
ProviderTools(url, command) ==
  IF ~Falsy(url) THEN <<"search", "read">>
  ELSE IF command = "preset" THEN <<"read", "list">>
  ELSE <<"list">>

\* A YAML document as yaml.safe_load sees it.
Yaml(kind, prompt_text, servers, sp, ctx) ==
  [kind |-> kind, prompt_text |-> prompt_text, mcp_servers |-> servers,
   system_prompt |-> sp, context |-> ctx]

GoodYaml(servers) == Yaml("mapping", "prompt", servers, NoVal, NoVal)

BadYamls ==
  {Yaml("unreadable", NoVal, <<>>, NoVal, NoVal),
   Yaml("notmapping", NoVal, <<>>, NoVal, NoVal),
   Yaml("mapping", NoVal, <<DLocalCommand>>, "sys2", "ctx2")}

\* Every mcp_servers list up to MaxServers descriptors.
SetupYamls ==
  {GoodYaml(s) : s \in SeqsUpTo(Descriptors, MaxServers)} \cup BadYamls

\* Configurations for the tool loop: none, one, two with a shared tool name.
LoopYamls ==
  {GoodYaml(<<>>), GoodYaml(<<DLocalCommand>>),
   GoodYaml(<<DRemoteToken, DLocalPreset>>),
   GoodYaml(<<DLocalPreset, DLocalCommand>>)}

\* Configurations for sequences of invoke and cleanup.
SessionYamls ==
  {Yaml("mapping", "prompt", <<DLocalCommand>>, "sys1", "ctx1"),
   GoodYaml(<<DRemoteBoth, DLocalPreset>>)} \cup BadYamls

\* What the model asks for in one tool call: a name and an argument payload.
CallKinds ==
  {[name |-> "read", arguments |-> "{}"],
   [name |-> "list", arguments |-> "{}"],
   [name |-> "nope", arguments |-> "{}"],
   [name |-> "read", arguments |-> "{bad"]}

Contents == {"answer1", "answer2"}

Response(content, calls) == [content |-> content, calls |-> calls]

LoopResponses ==
  {Response(c, <<>>) : c \in Contents}
    \cup {Response("", s) : s \in SeqsUpTo(CallKinds, MaxCalls) \ {<<>>}}

BasicResponses ==
  {Response("answer1", <<>>),
   Response("", <<[name |-> "read", arguments |-> "{}"]>>)}

\* Configurations and responses for the loop run to its end: one and two
\* servers; an answer, or up to MaxCalls calls of a tool some client holds, of
\* a tool none holds, or with an undecodable payload.
FairYamls ==
  {GoodYaml(<<DLocalCommand>>), GoodYaml(<<DRemoteToken, DLocalPreset>>)}

FairCalls ==
  {[name |-> "list", arguments |-> "{}"],
   [name |-> "nope", arguments |-> "{}"],
   [name |-> "list", arguments |-> "{bad"]}

FairResponses ==
  {Response("answer1", <<>>)}
    \cup {Response("", s) : s \in SeqsUpTo(FairCalls, MaxCalls) \ {<<>>}}

\* json.loads on the argument payload: decodes, or raises JSONDecodeError.
JsonOk(arguments) == arguments = "{}"

ConnectOutcomeSet == {"ok", "no_transport", "no_session", "handshake"}

CallOutcomes == {"ok", "fail"}

\* ------------------------------------------------------------ state
VARIABLES
  mcp_clients,        \* Agent.mcp_clients: the connections, by their index in heap
  llm,                \* Agent.llm: <<>> is None, else <<the AsyncChatOpenAI>>
  system_prompt,      \* Agent.system_prompt
  context,            \* Agent.context
  current_mcp_configs_from_yaml,
  heap,               \* every MCPClient ever constructed
  pc,                 \* where the caller's task is: idle, connect, await_model, tools
  idx,                \* Agent.init: position in its connect loop
  tools,              \* Agent.init: the tools collected so far
  prompt,             \* Agent.invoke: prompt_text
  request,            \* the messages of the model call in flight
  chat_resp,          \* Agent._invoke: chat_resp
  tc,                 \* Agent._invoke: position in chat_resp.tool_calls
  tool_messages,      \* Agent._invoke: tool_messages_for_llm
  dispatched,         \* per handled call of the round: the client called, and how it ended
  rounds,             \* model responses received in this invoke
  nCalls,             \* call_tool invocations in this invoke
  result,             \* how the last invoke ended, as its caller sees it
  invokes,            \* invoke() calls so far
  cleanups,           \* cleanup() calls so far
  ops,                \* the calls made on the Agent, in order
  yaml_content,       \* Agent.invoke: the document given to the last invoke
  last_call           \* the last call_tool made on a client directly, and how it went

vars ==
  <<mcp_clients, llm, system_prompt, context, current_mcp_configs_from_yaml,
    heap, pc, idx, tools, prompt, request, chat_resp, tc, tool_messages,
    dispatched, rounds, nCalls, result, invokes, cleanups, ops, yaml_content,
    last_call>>

agentFields ==
  <<mcp_clients, llm, system_prompt, context, current_mcp_configs_from_yaml>>

loopLocals == <<request, chat_resp, tc, tool_messages, dispatched, rounds, nCalls>>

NoResp == [content |-> NoVal, tool_calls |-> <<>>, messages |-> <<>>]

NoResult == [kind |-> "none", value |-> NoVal]

NoYaml == [kind |-> "none", prompt_text |-> NoVal, mcp_servers |-> <<>>,
           system_prompt |-> NoVal, context |-> NoVal]

NoCall == [client |-> 0, name |-> NoVal, state |-> "none", handed |-> FALSE,
           sent |-> FALSE, outcome |-> "none"]

\* ------------------------------------------------------------ MCPClient
\* MCPClient.__init__.  session: whether self.session is set; stack: the
\* contexts entered on self.exit_stack (1: the transport, 2: the ClientSession).
\* desc, born, connects, connected, closes, released and close_err record what
\* happened to the instance: the descriptor and invoke it was built for, the
\* init() calls and whether one completed, the cleanup() calls, the times a
\* cleanup released an entered transport, and whether the last aclose() failed.
NewClient(url, command, token, desc, born) ==
  [url |-> url, command |-> command, token |-> token, session |-> FALSE,
   stack |-> 0, tools |-> <<>>, desc |-> desc, born |-> born, connects |-> 0,
   connected |-> FALSE, closes |-> 0, released |-> 0, close_err |-> FALSE]

\* The ways _connect_to_server can end for a client.
ConnectOutcomes(c) ==
  IF Falsy(c.url) /\ Falsy(c.command) THEN {"no_command"} ELSE ConnectOutcomeSet

\* MCPClient.init -> _connect_to_server, ending as outcome o says:
\*   no_command    ValueError before anything is opened
\*   no_transport  entering streamablehttp_client / stdio_client raises
\*   no_session    entering ClientSession raises
\*   handshake     session.initialize() or session.list_tools() raises
\*   ok            self.tools = response.tools
ConnectToServer(c, o) ==
  LET n == [c EXCEPT !.connects = @ + 1] IN
  CASE o = "no_command" -> n
    [] o = "no_transport" -> n
    [] o = "no_session" -> [n EXCEPT !.stack = c.stack + 1]
    [] o = "handshake" -> [n EXCEPT !.stack = c.stack + 2, !.session = TRUE]
    [] OTHER -> [n EXCEPT !.stack = c.stack + 2, !.session = TRUE,
                          !.tools = ProviderTools(c.url, c.command),
                          !.connected = TRUE]

\* A cleanup that unwinds the exit stack only of a client that connected.
ClientCleanupOnlyConnected(c, fails) ==
  IF c.connected
    THEN [c EXCEPT !.stack = 0,
                   !.closes = @ + 1,
                   !.released = IF c.stack > 0 THEN @ + 1 ELSE @,
                   !.close_err = fails /\ c.stack > 0]
    ELSE [c EXCEPT !.closes = @ + 1]

\* A cleanup that releases and reports again whatever the exit stack holds.
ClientCleanupReleasesAgain(c, fails) ==
  [c EXCEPT !.stack = 0,
            !.closes = @ + 1,
            !.released = @ + 1,
            !.close_err = fails]

\* MCPClient.cleanup: exit_stack.aclose() unwinds every entered context;
\* an exception it raises is printed and swallowed.
ClientCleanup(c, fails) ==
  [c EXCEPT !.stack = 0,
            !.closes = @ + 1,
            !.released = IF c.stack > 0 THEN @ + 1 ELSE @,
            !.close_err = fails /\ c.stack > 0]

\* Where an instance is in the connection lifecycle.
LifecycleState(c) ==
  IF c.closes > 0 THEN "CLOSED"
  ELSE IF c.connected THEN "CONNECTED"
  ELSE IF c.connects > 0 THEN "FAILED"
  ELSE "UNINITIALIZED"

\* MCPClient.call_tool(name, params): `return await
\* self.session.call_tool(name, params)`.  With self.session None the attribute
\* access raises; otherwise the call is handed to the ClientSession, which
\* sends it to the provider while its transport is open (outcome o) and fails
\* once aclose() has closed it.
CallTool(c, name, o) ==
  IF ~c.session THEN [handed |-> FALSE, sent |-> FALSE, outcome |-> "fail"]
  ELSE IF c.stack = 0 THEN [handed |-> TRUE, sent |-> FALSE, outcome |-> "fail"]
  ELSE [handed |-> TRUE, sent |-> TRUE, outcome |-> o]

\* ------------------------------------------------------------ Agent.init
\* os.environ.get(token_env) if token_env is given, else the explicit token.
ResolveToken(d, env) ==
  IF ~Falsy(d.token_env) THEN env
  ELSE IF ~Falsy(d.token) THEN d.token
  ELSE NoVal

\* One pass of the loop over current_mcp_configs_from_yaml: <<the client>>,
\* or <<>> when the descriptor is skipped with a warning.
Factory(d, env, born) ==
  IF d.type = "remote" THEN
    IF Falsy(d.url) THEN <<>>
    ELSE <<NewClient(d.url, NoVal, ResolveToken(d, env), d, born)>>
  ELSE IF d.type = "local" THEN
    IF ~Falsy(d.preset_ref) THEN
      IF d.preset_ref \in KnownPresets
        THEN <<NewClient(NoVal, PresetCommand(d.preset_ref), NoVal, d, born)>>
        ELSE <<>>
    ELSE IF Falsy(d.command) THEN <<>>
    ELSE <<NewClient(NoVal, d.command, NoVal, d, born)>>
  ELSE <<>>

\* BuildClients with `break` in place of `continue`: the loop ends at the
\* first skipped descriptor.
RECURSIVE BuildClientsStopAtSkip(_, _, _)
BuildClientsStopAtSkip(configs, env, born) ==
  IF configs = <<>> \/ Factory(Head(configs), env, born) = <<>> THEN <<>>
  ELSE Factory(Head(configs), env, born)
         \o BuildClientsStopAtSkip(Tail(configs), env, born)

\* The whole loop: the clients constructed, in configuration order.
RECURSIVE BuildClients(_, _, _)
BuildClients(configs, env, born) ==
  IF configs = <<>> THEN <<>>
  ELSE Factory(Head(configs), env, born) \o BuildClients(Tail(configs), env, born)

\* ------------------------------------------------------------ Agent.cleanup
\* CleanupClients without the try/except around each cleanup: the first
\* failing aclose() ends the loop.
RECURSIVE CleanupClientsStopAtFailure(_, _, _)
CleanupClientsStopAtFailure(h, clients, fails) ==
  IF clients = <<>> THEN h
  ELSE IF Head(clients) \in fails /\ h[Head(clients)].stack > 0
    THEN [h EXCEPT ![Head(clients)] = ClientCleanup(@, TRUE)]
  ELSE CleanupClientsStopAtFailure(
         [h EXCEPT ![Head(clients)] = ClientCleanup(@, FALSE)],
         Tail(clients), fails)

\* The loop over self.mcp_clients; fails: the clients whose aclose() raises.
RECURSIVE CleanupClients(_, _, _)
CleanupClients(h, clients, fails) ==
  IF clients = <<>> THEN h
  ELSE CleanupClients(
         [h EXCEPT ![Head(clients)] = ClientCleanup(@, Head(clients) \in fails)],
         Tail(clients), fails)

\* ------------------------------------------------------------ Agent._invoke
\* FindClient over every client ever constructed instead of the agent's list.
FindClientInHeap(h, clients, name) ==
  IF \E i \in DOMAIN h : name \in Range(h[i].tools)
    THEN CHOOSE i \in DOMAIN h :
           /\ name \in Range(h[i].tools)
           /\ \A j \in DOMAIN h : name \in Range(h[j].tools) => i <= j
    ELSE 0

\* FindClient without the `break`: the last client holding the name wins.
RECURSIVE FindClientLast(_, _, _)
FindClientLast(h, clients, name) ==
  IF clients = <<>> THEN 0
  ELSE IF FindClientLast(h, Tail(clients), name) # 0
    THEN FindClientLast(h, Tail(clients), name)
  ELSE IF name \in Range(h[Head(clients)].tools) THEN Head(clients)
  ELSE 0

\* The scan over self.mcp_clients for the first client whose get_tools()
\* holds the name; 0 when there is none (target_mcp_client stays None).
RECURSIVE FindClient(_, _, _)
FindClient(h, clients, name) ==
  IF clients = <<>> THEN 0
  ELSE IF name \in Range(h[Head(clients)].tools) THEN Head(clients)
  ELSE FindClient(h, Tail(clients), name)

ErrNotFound == "Error: Tool not found"
ErrJson == "Error: Invalid JSON arguments for tool."
ErrExec == "Error executing tool"
ToolOutput == "tool output"

\* InvokeTool raising for a name no client holds.
InvokeToolNotFoundRaises(h, target, call, o) ==
  IF target = 0 THEN
    [content |-> ErrNotFound, client |-> 0, outcome |-> "none", escapes |-> TRUE]
  ELSE IF ~JsonOk(call.arguments) THEN
    [content |-> ErrJson, client |-> 0, outcome |-> "none", escapes |-> FALSE]
  ELSE IF o = "ok" THEN
    [content |-> ToolOutput, client |-> target, outcome |-> "ok", escapes |-> FALSE]
  ELSE
    [content |-> ErrExec, client |-> target, outcome |-> "fail", escapes |-> FALSE]

\* InvokeTool without `except Exception`: a failing call_tool leaves the loop.
InvokeToolExecEscapes(h, target, call, o) ==
  IF target = 0 THEN
    [content |-> ErrNotFound, client |-> 0, outcome |-> "none", escapes |-> FALSE]
  ELSE IF ~JsonOk(call.arguments) THEN
    [content |-> ErrJson, client |-> 0, outcome |-> "none", escapes |-> FALSE]
  ELSE IF o = "ok" THEN
    [content |-> ToolOutput, client |-> target, outcome |-> "ok", escapes |-> FALSE]
  ELSE
    [content |-> ErrExec, client |-> target, outcome |-> "fail", escapes |-> TRUE]

\* The body of the loop over chat_resp.tool_calls up to the append, for one
\* call: the result content, the client call_tool was awaited on (0: none),
\* how that call ended, and whether an exception leaves the loop.
InvokeTool(h, target, call, o) ==
  IF target = 0 THEN
    [content |-> ErrNotFound, client |-> 0, outcome |-> "none", escapes |-> FALSE]
  ELSE IF ~JsonOk(call.arguments) THEN
    [content |-> ErrJson, client |-> 0, outcome |-> "none", escapes |-> FALSE]
  ELSE IF ~h[target].session THEN
    \* self.session is None: AttributeError, caught by `except Exception`
    [content |-> ErrExec, client |-> target, outcome |-> "fail", escapes |-> FALSE]
  ELSE IF o = "ok" THEN
    [content |-> ToolOutput, client |-> target, outcome |-> "ok", escapes |-> FALSE]
  ELSE
    [content |-> ErrExec, client |-> target, outcome |-> "fail", escapes |-> FALSE]

\* The dict appended to tool_messages_for_llm.
ToolMessage(call, content) ==
  [tool_call_id |-> call.id, role |-> "tool", name |-> call.name,
   content |-> content]

\* ToolResultsRequest sending the results without the response's messages.
ToolResultsRequestOnlyResults(resp, msgs) == msgs

\* messages= of llm.chat_with_tool_results.
ToolResultsRequest(resp, msgs) == resp.messages \o msgs

\* FinalAnswer of a function that ends without `return chat_resp.content`.
FinalAnswerNone(resp) == NoVal

\* The value of `return chat_resp.content`.
FinalAnswer(resp) == resp.content

\* The response object of the model wrapper for the model's answer r in
\* round n: its tool calls get identifiers, and messages is the wrapper's
\* own record of the exchange.
ChatResp(r, n) ==
  [content |-> r.content,
   tool_calls |-> [j \in DOMAIN r.calls |->
                     [id |-> <<n, j>>, name |-> r.calls[j].name,
                      arguments |-> r.calls[j].arguments]],
   messages |-> <<[role |-> "assistant", round |-> n]>>]

\* ------------------------------------------------------------ actions
\* Agent(model=...): the field defaults.  mcp_clients and
\* current_mcp_configs_from_yaml are declared with default_factory=list, read
\* here as an empty list per instance.
Init ==
  /\ mcp_clients = <<>>
  /\ llm = <<>>
  /\ system_prompt = ""
  /\ context = ""
  /\ current_mcp_configs_from_yaml = <<>>
  /\ heap = <<>>
  /\ pc = "idle"
  /\ idx = 0
  /\ tools = <<>>
  /\ prompt = NoVal
  /\ request = <<>>
  /\ chat_resp = NoResp
  /\ tc = 0
  /\ tool_messages = <<>>
  /\ dispatched = <<>>
  /\ rounds = 0
  /\ nCalls = 0
  /\ result = NoResult
  /\ invokes = 0
  /\ cleanups = 0
  /\ ops = <<>>
  /\ yaml_content = NoYaml
  /\ last_call = NoCall

\* ConfigRejected without the prompt_text check.
ConfigRejectedOnlyUnreadable(y) == y.kind = "unreadable"

\* Agent.invoke returns None: the file cannot be opened or parsed, or the
\* mapping it holds has no prompt_text.
ConfigRejected(y) ==
  y.kind = "unreadable" \/ (y.kind = "mapping" /\ Falsy(y.prompt_text))

\* ResetClients of an init that appends to the list it finds.
ResetClientsKeep(old) == old

\* `self.mcp_clients = []` at the start of Agent.init.
ResetClients(old) == <<>>

\* ClientAt walking the list backwards.
ClientAtReversed(clients, k) == clients[Len(clients) + 1 - k]

\* `for mcp_client in self.mcp_clients`: the client of the k-th pass.
ClientAt(clients, k) == clients[k]

\* CollectTools assigning instead of extending.
CollectToolsReplace(collected, c) == c.tools

\* tools.extend(mcp_client.get_tools()).
CollectTools(collected, c) == collected \o c.tools

\* HasToolCalls of a test for more than one call.
HasToolCallsSeveral(resp) == Len(resp.tool_calls) > 1

\* `if chat_resp.tool_calls:`.
HasToolCalls(resp) == resp.tool_calls # <<>>

\* ModelErrorPc of a loop that catches the exception and calls the model again.
ModelErrorRetry == "await_model"

\* Where the caller's task is after the model call raised: nothing in
\* Agent._invoke or Agent.invoke catches it, so the invoke is over.
ModelErrorPc == "idle"

\* CallAt walking the calls backwards.
CallAtReversed(resp, k) == resp.tool_calls[Len(resp.tool_calls) + 1 - k]

\* `for tool_call in chat_resp.tool_calls`: the call of the k-th pass.
CallAt(resp, k) == resp.tool_calls[k]

\* CleanupEscalates with neither `except Exception`: a failing aclose()
\* leaves Agent.cleanup.
CleanupEscalatesOnFailure(h, clients, fails) ==
  \E i \in DOMAIN clients : clients[i] \in fails /\ h[clients[i]].stack > 0

\* Whether an exception leaves Agent.cleanup's loop: MCPClient.cleanup
\* swallows what aclose() raises, and Agent.cleanup wraps each call in
\* try/except Exception again.
CleanupEscalates(h, clients, fails) == FALSE

\* Agent.init past its connect loop, and the start of Agent._invoke: the
\* AsyncChatOpenAI is constructed on the collected tools and llm.chat(prompt)
\* is awaited.
StartChat(collected, sp, ctx, text) ==
  /\ llm' = <<[tools |-> collected, system_prompt |-> sp, context |-> ctx]>>
  /\ request' = <<[role |-> "user", content |-> text]>>
  /\ pc' = "await_model"
  /\ idx' = 0
  /\ tools' = <<>>

\* Agent.invoke(prompt_yaml_path), up to its first await: the YAML document
\* is loaded and checked, the fields are set, and Agent.init constructs the
\* clients; then the first MCPClient.init is awaited (or, with no client, the
\* first model call).
Invoke(yamls, maxInvokes) ==
  /\ pc = "idle"
  /\ invokes < maxInvokes
  /\ invokes' = invokes + 1
  /\ ops' = Append(ops, "invoke")
  /\ UNCHANGED cleanups
  /\ chat_resp' = NoResp
  /\ tc' = 0
  /\ tool_messages' = <<>>
  /\ dispatched' = <<>>
  /\ rounds' = 0
  /\ nCalls' = 0
  /\ UNCHANGED last_call
  /\ \E y \in yamls, env \in EnvValues :
       /\ yaml_content' = y
       /\ IF ConfigRejected(y) THEN
            \* return None
            /\ result' = [kind |-> "failed", value |-> NoVal]
            /\ UNCHANGED <<agentFields, heap, pc, idx, tools, prompt, request>>
          ELSE IF y.kind # "mapping" THEN
            \* yaml_content.get on a value that is no dict: AttributeError
            /\ result' = [kind |-> "raised", value |-> "yaml"]
            /\ UNCHANGED <<agentFields, heap, pc, idx, tools, prompt, request>>
          ELSE
            LET sp == IF y.system_prompt = NoVal THEN system_prompt ELSE y.system_prompt
                ctx == IF y.context = NoVal THEN context ELSE y.context
                built == BuildClients(y.mcp_servers, env, invokes + 1)
                ids == [j \in 1..Len(built) |-> Len(heap) + j]
            IN /\ current_mcp_configs_from_yaml' = y.mcp_servers
               /\ system_prompt' = sp
               /\ context' = ctx
               /\ prompt' = y.prompt_text
               /\ heap' = heap \o built
               /\ mcp_clients' = ResetClients(mcp_clients) \o ids
               /\ UNCHANGED result
               /\ IF ResetClients(mcp_clients) \o ids = <<>>
                    THEN StartChat(<<>>, sp, ctx, y.prompt_text)
                    ELSE /\ pc' = "connect"
                         /\ idx' = 1
                         /\ tools' = <<>>
                         /\ UNCHANGED <<llm, request>>

\* Agent.init: `await mcp_client.init()` returns or raises for the client at
\* idx; on return its tools are collected and the loop goes on.  An exception
\* is caught nowhere in Agent.init or Agent.invoke.
Connect ==
  /\ pc = "connect"
  /\ idx <= Len(mcp_clients)
  /\ LET id == ClientAt(mcp_clients, idx) IN
     \E o \in ConnectOutcomes(heap[id]) :
       LET c == ConnectToServer(heap[id], o) IN
       /\ heap' = [heap EXCEPT ![id] = c]
       /\ IF o = "ok" THEN
            /\ UNCHANGED result
            /\ IF idx < Len(mcp_clients)
                 THEN /\ tools' = CollectTools(tools, c)
                      /\ idx' = idx + 1
                      /\ UNCHANGED <<pc, llm, request>>
                 ELSE StartChat(CollectTools(tools, c), system_prompt, context, prompt)
          ELSE
            /\ result' = [kind |-> "raised", value |-> "connect"]
            /\ pc' = "idle"
            /\ idx' = 0
            /\ tools' = <<>>
            /\ UNCHANGED <<llm, request>>
  /\ UNCHANGED <<mcp_clients, system_prompt, context, current_mcp_configs_from_yaml,
                 prompt, chat_resp, tc, tool_messages, dispatched, rounds, nCalls,
                 invokes, cleanups, ops, yaml_content, last_call>>

\* Agent._invoke: the model call in flight returns a response, or raises.
\* A response without tool calls ends the invoke with its content.
ModelRespond(responses) ==
  /\ pc = "await_model"
  /\ request' = <<>>
  /\ \/ /\ pc' = ModelErrorPc
        /\ result' = [kind |-> "raised", value |-> "model"]
        /\ UNCHANGED <<chat_resp, tc, tool_messages, dispatched, rounds>>
     \/ \E r \in responses :
          /\ r.calls # <<>> => rounds < MaxRounds
          /\ LET resp == ChatResp(r, rounds + 1) IN
             /\ chat_resp' = resp
             /\ rounds' = rounds + 1
             /\ tool_messages' = <<>>
             /\ dispatched' = <<>>
             /\ IF HasToolCalls(resp)
                  THEN /\ pc' = "tools"
                       /\ tc' = 1
                       /\ UNCHANGED result
                  ELSE /\ pc' = "idle"
                       /\ tc' = 0
                       /\ result' = [kind |-> "returned", value |-> FinalAnswer(resp)]
  /\ UNCHANGED <<agentFields, heap, idx, tools, prompt, nCalls, invokes, cleanups,
                 ops, yaml_content, last_call>>

\* Agent._invoke: one pass of the loop over chat_resp.tool_calls; after the
\* last call the results are sent with llm.chat_with_tool_results.
HandleToolCall ==
  /\ pc = "tools"
  /\ LET call == CallAt(chat_resp, tc)
         target == FindClient(heap, mcp_clients, call.name)
     IN \E o \in CallOutcomes :
          LET r == InvokeTool(heap, target, call, o)
              msgs == Append(tool_messages, ToolMessage(call, r.content))
          IN /\ dispatched' = Append(dispatched, [client |-> r.client, outcome |-> r.outcome])
             /\ nCalls' = IF r.client # 0 THEN nCalls + 1 ELSE nCalls
             /\ IF r.escapes THEN
                  /\ pc' = "idle"
                  /\ result' = [kind |-> "raised", value |-> "tool"]
                  /\ UNCHANGED <<tool_messages, tc, request>>
                ELSE
                  /\ tool_messages' = msgs
                  /\ tc' = tc + 1
                  /\ UNCHANGED result
                  /\ IF tc < Len(chat_resp.tool_calls)
                       THEN UNCHANGED <<pc, request>>
                       ELSE /\ pc' = "await_model"
                            /\ request' = IF msgs # <<>>
                                            THEN ToolResultsRequest(chat_resp, msgs)
                                            ELSE <<>>
  /\ UNCHANGED <<agentFields, heap, idx, tools, prompt, chat_resp, rounds,
                 invokes, cleanups, ops, yaml_content, last_call>>

\* Agent.cleanup(): every client of self.mcp_clients is cleaned up in turn,
\* then the list is cleared and the llm dropped.
Cleanup ==
  /\ pc = "idle"
  /\ cleanups < MaxCleanups
  /\ \E fails \in SUBSET Range(mcp_clients) :
       /\ heap' = CleanupClients(heap, mcp_clients, fails)
       /\ IF CleanupEscalates(heap, mcp_clients, fails)
            THEN UNCHANGED <<mcp_clients, llm>>
            ELSE /\ mcp_clients' = <<>>
                 /\ llm' = <<>>
  /\ cleanups' = cleanups + 1
  /\ ops' = Append(ops, "cleanup")
  /\ UNCHANGED <<system_prompt, context, current_mcp_configs_from_yaml, pc, idx,
                 tools, prompt, loopLocals, result, invokes, yaml_content, last_call>>

\* ------------------------------------------------------------ MCPClient alone
\* The arguments MCPClient is constructed with when it is used without an
\* Agent: a remote endpoint, a local command, or neither.
ClientParams == {DRemoteToken, DLocalCommand, DLocalNoCommand}

\* The tool names a caller passes to call_tool.
CallNames == {"list", "nope"}

\* MCPClient(...): a new instance.
ClientNew ==
  /\ Len(heap) < MaxClients
  /\ \E d \in ClientParams :
       heap' = Append(heap, NewClient(d.url, d.command, d.token, d, 0))
  /\ UNCHANGED <<agentFields, pc, idx, tools, prompt, loopLocals, result, invokes,
                 cleanups, ops, yaml_content, last_call>>

\* await client.init(), called once on an instance.
ClientInit ==
  /\ \E i \in DOMAIN heap :
       /\ heap[i].connects = 0
       /\ \E o \in ConnectOutcomes(heap[i]) :
            heap' = [heap EXCEPT ![i] = ConnectToServer(@, o)]
  /\ UNCHANGED <<agentFields, pc, idx, tools, prompt, loopLocals, result, invokes,
                 cleanups, ops, yaml_content, last_call>>

\* await client.call_tool(name, params).
ClientCallTool ==
  /\ \E i \in DOMAIN heap, name \in CallNames, o \in CallOutcomes :
       LET r == CallTool(heap[i], name, o) IN
       last_call' = [client |-> i, name |-> name, state |-> LifecycleState(heap[i]),
                     handed |-> r.handed, sent |-> r.sent, outcome |-> r.outcome]
  /\ UNCHANGED <<agentFields, heap, pc, idx, tools, prompt, loopLocals, result,
                 invokes, cleanups, ops, yaml_content>>

\* await client.cleanup().
ClientCleanupCall ==
  /\ \E i \in DOMAIN heap, fails \in BOOLEAN :
       /\ heap[i].closes < MaxCleanups
       /\ heap' = [heap EXCEPT ![i] = ClientCleanup(@, fails)]
  /\ UNCHANGED <<agentFields, pc, idx, tools, prompt, loopLocals, result, invokes,
                 cleanups, ops, yaml_content, last_call>>

\* ------------------------------------------------------------ specifications
\* Sequences of invoke and cleanup on one Agent.
Next ==
  \/ Invoke(SessionYamls, MaxInvokes)
  \/ Connect
  \/ ModelRespond(BasicResponses)
  \/ HandleToolCall
  \/ Cleanup

Spec == Init /\ [][Next]_vars

\* One invoke over every list of descriptors, then cleanup.
NextSetup ==
  \/ Invoke(SetupYamls, 1)
  \/ Connect
  \/ ModelRespond(BasicResponses)
  \/ HandleToolCall
  \/ Cleanup

SpecSetup == Init /\ [][NextSetup]_vars

\* One invoke over every model response, then cleanup.
NextLoop ==
  \/ Invoke(LoopYamls, 1)
  \/ Connect
  \/ ModelRespond(LoopResponses)
  \/ HandleToolCall
  \/ Cleanup

SpecLoop == Init /\ [][NextLoop]_vars

\* One invoke in which every awaited call returns: the task running
\* Agent._invoke resumes whenever the provider call or the model call it
\* awaits completes.
NextLoopFair ==
  \/ Invoke(FairYamls, 1)
  \/ Connect
  \/ ModelRespond(FairResponses)
  \/ HandleToolCall

SpecLoopFair ==
  /\ Init
  /\ [][NextLoopFair]_vars
  /\ WF_vars(HandleToolCall)
  /\ WF_vars(ModelRespond(FairResponses))

\* MCPClient instances used on their own: constructed, connected once,
\* called and cleaned up in any order.
NextClient ==
  \/ ClientNew
  \/ ClientInit
  \/ ClientCallTool
  \/ ClientCleanupCall

SpecClient == Init /\ [][NextClient]_vars

\* ------------------------------------------------------------ claims
FailedConnect(c) == c.connects > 0 /\ ~c.connected

Exposes(id, name) == name \in Range(heap[id].tools)

NoOwner(name) == \A i \in DOMAIN mcp_clients : ~Exposes(mcp_clients[i], name)

InInvoke == pc \in {"tools", "await_model"}

ErrorContents == {ErrNotFound, ErrJson, ErrExec}

\* The connections of mcp_clients whose connect() succeeded, in order.
RECURSIVE SurvivorTools(_)
SurvivorTools(clients) ==
  IF clients = <<>> THEN <<>>
  ELSE (IF heap[Head(clients)].connected THEN heap[Head(clients)].tools ELSE <<>>)
         \o SurvivorTools(Tail(clients))

OneOfTwoFailed ==
  /\ Len(mcp_clients) = 2
  /\ Cardinality({i \in 1..2 : FailedConnect(heap[mcp_clients[i]])}) = 1

\* C1: when connect() of one of two configured connections fails, the invoke
\* is not aborted: it never ends (the caller's task idle again) other than by
\* returning a final answer, from a model built on the surviving connection's
\* tools only.
C1_SessionSurvivesConnectFailure ==
  (OneOfTwoFailed /\ pc = "idle") =>
    /\ result.kind = "returned"
    /\ llm # <<>>
    /\ llm[1].tools = SurvivorTools(mcp_clients)

\* C2: after one invoke followed by one cleanup, close() has been called
\* exactly once on every connection constructed, whichever close() calls
\* failed.
C2_EveryClientClosedOnce ==
  ops = <<"invoke", "cleanup">> =>
    \A i \in DOMAIN heap : heap[i].closes = 1

\* C2's case: two connections, the first close() failed, the second was
\* still closed and its transport released.
C2_Witness ==
  /\ ops = <<"invoke", "cleanup">>
  /\ Len(heap) = 2
  /\ heap[1].close_err
  /\ heap[2].closes = 1
  /\ heap[2].released = 1

\* C3: after any sequence of invokes followed by cleanup, no connection that
\* reached CONNECTED is left un-closed: close() has been attempted on it and
\* it holds no open transport.  (The claim asks this of every connection ever
\* constructed; the connected ones are those among them that hold resources.)
C3_EveryConnectedClientClosed ==
  (ops # <<>> /\ Last(ops) = "cleanup") =>
    \A i \in DOMAIN heap :
      heap[i].connected => (heap[i].closes >= 1 /\ heap[i].stack = 0)

\* C4: when two live connections expose the same tool name, a call for that
\* name never reaches the later connection, and a call that is dispatched
\* goes to the earlier one.
C4_FirstRegisteredWins ==
  InInvoke =>
    \A j \in DOMAIN dispatched : \A p, q \in DOMAIN mcp_clients :
      (/\ p < q
       /\ Exposes(mcp_clients[p], chat_resp.tool_calls[j].name)
       /\ Exposes(mcp_clients[q], chat_resp.tool_calls[j].name))
      => /\ dispatched[j].client # mcp_clients[q]
         /\ (\A o \in 1..(p - 1) :
               ~Exposes(mcp_clients[o], chat_resp.tool_calls[j].name))
              => (JsonOk(chat_resp.tool_calls[j].arguments)
                    => dispatched[j].client = mcp_clients[p])

\* C4's case: in the second round, a call for a name both connections expose
\* was sent to the first.
C4_Witness ==
  /\ InInvoke
  /\ rounds = 2
  /\ Len(mcp_clients) = 2
  /\ \E j \in DOMAIN dispatched :
       /\ Exposes(mcp_clients[1], chat_resp.tool_calls[j].name)
       /\ Exposes(mcp_clients[2], chat_resp.tool_calls[j].name)
       /\ dispatched[j].client = mcp_clients[1]

\* C5: when the first model response carries no tool calls, the invoke has
\* returned exactly that response's content after that one round trip, with
\* no call_tool on any connection.
C5_DirectAnswer ==
  (rounds = 1 /\ chat_resp # NoResp /\ chat_resp.tool_calls = <<>>) =>
    /\ pc = "idle"
    /\ result = [kind |-> "returned", value |-> chat_resp.content]
    /\ nCalls = 0
    /\ dispatched = <<>>

\* C5's case: connections with tools are live and the first response was a
\* direct answer.
C5_Witness ==
  /\ rounds = 1
  /\ chat_resp.tool_calls = <<>>
  /\ result = [kind |-> "returned", value |-> "answer2"]
  /\ llm # <<>>
  /\ llm[1].tools # <<>>

\* C6: a tool call whose name no live connection exposes gets the result
\* "tool not found" tagged with its id, without call_tool on any connection
\* and without an exception leaving the loop; once the round is handled the
\* result is in the history sent to the model.
C6_UnknownToolIsData ==
  /\ result # [kind |-> "raised", value |-> "tool"]
  /\ InInvoke =>
       \A j \in DOMAIN chat_resp.tool_calls :
         NoOwner(chat_resp.tool_calls[j].name) =>
           /\ j \in DOMAIN tool_messages =>
                /\ tool_messages[j].content = ErrNotFound
                /\ tool_messages[j].tool_call_id = chat_resp.tool_calls[j].id
                /\ dispatched[j].client = 0
           /\ pc = "await_model" =>
                \E k \in DOMAIN request :
                  request[k] = [tool_call_id |-> chat_resp.tool_calls[j].id,
                                role |-> "tool",
                                name |-> chat_resp.tool_calls[j].name,
                                content |-> ErrNotFound]

\* C6's case: a connection is live, the model asked for a tool nobody
\* exposes, and the next model call is in flight.
C6_Witness ==
  /\ pc = "await_model"
  /\ mcp_clients # <<>>
  /\ \E j \in DOMAIN tool_messages :
       /\ chat_resp.tool_calls[j].name = "nope"
       /\ tool_messages[j].content = ErrNotFound

\* C7: an undecodable argument payload or a failing provider call yields an
\* error-content result for that call; no exception leaves the loop, every
\* call of the round up to the current one has its result, and when the round
\* is over all of them have and the next model call is in flight.
C7_ToolFailureIsData ==
  /\ result # [kind |-> "raised", value |-> "tool"]
  /\ InInvoke =>
       /\ \A j \in DOMAIN tool_messages :
            /\ (~NoOwner(chat_resp.tool_calls[j].name)
                  /\ ~JsonOk(chat_resp.tool_calls[j].arguments))
                 => (tool_messages[j].content = ErrJson /\ dispatched[j].client = 0)
            /\ dispatched[j].outcome = "fail" => tool_messages[j].content = ErrExec
            /\ dispatched[j].outcome # "ok" => tool_messages[j].content \in ErrorContents
       /\ pc = "tools" => (tc <= Len(chat_resp.tool_calls) /\ Len(tool_messages) = tc - 1)
       /\ (pc = "await_model" /\ rounds > 0)
            => Len(tool_messages) = Len(chat_resp.tool_calls)

\* C7's case: the first call of a round failed at the provider, the second
\* had bad arguments, and the next model call is in flight.
C7_Witness ==
  /\ pc = "await_model"
  /\ Len(tool_messages) = 2
  /\ dispatched[1].outcome = "fail"
  /\ tool_messages[2].content = ErrJson

\* C8: after a round with k >= 1 tool calls the history sent to the model is
\* the response's messages followed by exactly k results, the j-th carrying
\* the j-th call's id, role 'tool' and the call's tool name.
C8_ResultsInCallOrder ==
  (pc = "await_model" /\ rounds > 0) =>
    /\ Len(chat_resp.tool_calls) >= 1
    /\ Len(tool_messages) = Len(chat_resp.tool_calls)
    /\ Len(request) = Len(chat_resp.messages) + Len(chat_resp.tool_calls)
    /\ \A m \in DOMAIN chat_resp.messages : request[m] = chat_resp.messages[m]
    /\ \A j \in DOMAIN chat_resp.tool_calls :
         LET msg == request[Len(chat_resp.messages) + j] IN
         /\ msg = tool_messages[j]
         /\ msg.tool_call_id = chat_resp.tool_calls[j].id
         /\ msg.role = "tool"
         /\ msg.name = chat_resp.tool_calls[j].name

\* C8's case: the second round had two calls and its results are in flight.
C8_Witness ==
  /\ pc = "await_model"
  /\ rounds = 2
  /\ Len(chat_resp.tool_calls) = 2
  /\ chat_resp.tool_calls[1].name # chat_resp.tool_calls[2].name

\* C9: a remote descriptor giving both token and token_env yields a
\* connection whose token is the explicit token value.
C9_ExplicitTokenWins ==
  \A i \in DOMAIN heap :
    (/\ heap[i].desc.type = "remote"
     /\ ~Falsy(heap[i].desc.token)
     /\ ~Falsy(heap[i].desc.token_env))
    => heap[i].token = heap[i].desc.token

\* A descriptor that has its required field, a known preset and a known type.
ValidDescriptor(d) ==
  \/ d.type = "remote" /\ ~Falsy(d.url)
  \/ d.type = "local" /\ ~Falsy(d.preset_ref) /\ d.preset_ref \in KnownPresets
  \/ d.type = "local" /\ Falsy(d.preset_ref) /\ ~Falsy(d.command)

\* C10: the connections constructed by an invoke are exactly the valid
\* descriptors of its configuration, in configuration order; nothing is
\* constructed for a skipped descriptor.
C10_InvalidDescriptorsSkipped ==
  /\ \A i \in DOMAIN heap : ValidDescriptor(heap[i].desc)
  /\ (ops # <<>> /\ Last(ops) = "invoke") =>
       [j \in DOMAIN mcp_clients |-> heap[mcp_clients[j]].desc]
         = SelectSeq(current_mcp_configs_from_yaml, ValidDescriptor)

\* C10's case: the first descriptor was skipped and the second was built.
C10_Witness ==
  /\ ops # <<>>
  /\ Last(ops) = "invoke"
  /\ Len(current_mcp_configs_from_yaml) = 2
  /\ ~ValidDescriptor(current_mcp_configs_from_yaml[1])
  /\ Len(mcp_clients) = 1
  /\ heap[mcp_clients[1]].desc = current_mcp_configs_from_yaml[2]

\* A document that cannot be loaded, or that holds no prompt_text.
BadConfig(y) == y.kind \in {"unreadable", "notmapping"} \/ Falsy(y.prompt_text)

\* C11: an invoke on a configuration that cannot be loaded or lacks
\* prompt_text ends at once without a result (it returns None or raises),
\* with no connection constructed or connected, no model call started, and
\* the connection list, system prompt, context and stored descriptors as
\* they were.
C11_BadConfigChangesNothing ==
  [][(invokes' = invokes + 1 /\ BadConfig(yaml_content')) =>
       /\ result'.kind \in {"failed", "raised"}
       /\ pc' = "idle"
       /\ request' = <<>>
       /\ rounds' = 0
       /\ heap' = heap
       /\ mcp_clients' = mcp_clients
       /\ llm' = llm
       /\ system_prompt' = system_prompt
       /\ context' = context
       /\ current_mcp_configs_from_yaml' = current_mcp_configs_from_yaml]_vars

\* C11's case: a second invoke, on a mapping without prompt_text that names
\* a server and other prompts, after a first one that left connections.
C11_Witness ==
  /\ invokes = 2
  /\ Last(ops) = "invoke"
  /\ yaml_content.kind = "mapping"
  /\ BadConfig(yaml_content)
  /\ yaml_content.system_prompt = "sys2"
  /\ result.kind = "failed"
  /\ mcp_clients # <<>>
  /\ system_prompt # "sys2"

\* C12: a call_tool whose name is not among the tools the connection itself
\* published fails without being sent to the provider.
C12_UnknownNameNotForwarded ==
  (last_call.client # 0 /\ last_call.name \notin Range(heap[last_call.client].tools))
    => (~last_call.sent /\ last_call.outcome = "fail")

\* C13: a call_tool on a connection that is not CONNECTED (never connected,
\* failed to connect, or closed) fails without anything being handed to the
\* session or sent to the provider.
C13_NotConnectedFailsFast ==
  (last_call.client # 0 /\ last_call.state # "CONNECTED")
    => (~last_call.handed /\ ~last_call.sent /\ last_call.outcome = "fail")

\* C14: a cleanup() on an instance that a cleanup() has already unwound
\* releases nothing, reports no failure and leaves the transport, the session
\* reference, the tools and the lifecycle state as they were.
C14_SecondCleanupIsNoOp ==
  [][\A i \in DOMAIN heap :
       (heap[i].closes >= 1 /\ heap[i].stack = 0
          /\ heap'[i].closes = heap[i].closes + 1) =>
         /\ heap'[i].released = heap[i].released
         /\ heap'[i].stack = 0
         /\ ~heap'[i].close_err
         /\ heap'[i].session = heap[i].session
         /\ heap'[i].tools = heap[i].tools
         /\ LifecycleState(heap'[i]) = LifecycleState(heap[i])]_vars

\* C14's case: a connected instance cleaned up twice, its transport released
\* by the first cleanup only.
C14_Witness ==
  \E i \in DOMAIN heap :
    /\ heap[i].connected
    /\ heap[i].closes = 2
    /\ heap[i].released = 1
    /\ heap[i].stack = 0

\* C15: whichever clients' transport release fails, Agent.cleanup runs to its
\* end: afterwards the agent holds no client and no llm, and every client it
\* held has had its cleanup attempted.
C15_CleanupNeverEscalates ==
  (ops # <<>> /\ Last(ops) = "cleanup") =>
    /\ mcp_clients = <<>>
    /\ llm = <<>>
    /\ pc = "idle"
    /\ \A i \in DOMAIN heap : heap[i].closes >= 1

\* C15's case: a cleanup in which the release of both connected clients
\* failed.
C15_Witness ==
  /\ ops # <<>>
  /\ Last(ops) = "cleanup"
  /\ Len(heap) = 2
  /\ \A i \in DOMAIN heap : heap[i].connected /\ heap[i].close_err
  /\ mcp_clients = <<>>
  /\ llm = <<>>

\* The invoke ended with the model call's exception.
ModelFailed == result = [kind |-> "raised", value |-> "model"]

\* C16: when a model call fails, in the first round or a later one, the
\* invoke ends there with the exception as its outcome: no model request is
\* in flight or issued again, and from then on no tool is called and no
\* further round is run.
C16_ModelFailureIsFatal ==
  [][/\ ModelFailed' => (pc' = "idle" /\ request' = <<>>)
     /\ ModelFailed => (ModelFailed' /\ nCalls' = nCalls /\ rounds' = rounds
                        /\ dispatched' = dispatched)]_vars

\* C16's case: the model call that carries a round's tool results fails,
\* after a tool was called.
C16_Witness ==
  /\ ModelFailed
  /\ rounds >= 1
  /\ nCalls >= 1
  /\ pc = "idle"

\* Every tool name a provider of the model publishes, and one none does.
ToolNames == {"search", "read", "list", "nope"}

AllEstablished ==
  /\ mcp_clients # <<>>
  /\ \A i \in DOMAIN mcp_clients : heap[mcp_clients[i]].connected

DisjointTools ==
  \A i, j \in DOMAIN mcp_clients :
    i # j => Range(heap[mcp_clients[i]].tools) \cap Range(heap[mcp_clients[j]].tools) = {}

RECURSIVE ToolCount(_)
ToolCount(clients) ==
  IF clients = <<>> THEN 0
  ELSE Len(heap[Head(clients)].tools) + ToolCount(Tail(clients))

Resolvable == {n \in ToolNames : FindClient(heap, mcp_clients, n) # 0}

\* C17: once the llm is built over connections that were all established and
\* publish pairwise disjoint tool names, the catalog given to the llm and the
\* set of names the tool lookup resolves both have as many entries as the
\* connections have tools in total, and each name resolves to the
\* connection that published it.
C17_RegistryIsSumOfTools ==
  (pc # "connect" /\ llm # <<>> /\ AllEstablished /\ DisjointTools) =>
    /\ Len(llm[1].tools) = ToolCount(mcp_clients)
    /\ Cardinality(Resolvable) = ToolCount(mcp_clients)
    /\ Range(llm[1].tools) = Resolvable
    /\ \A i \in DOMAIN mcp_clients :
         \A n \in Range(heap[mcp_clients[i]].tools) :
           FindClient(heap, mcp_clients, n) = mcp_clients[i]

\* C17's case: two established connections with disjoint tools, three tools
\* in all.
C17_Witness ==
  /\ pc # "connect"
  /\ llm # <<>>
  /\ Len(mcp_clients) = 2
  /\ AllEstablished
  /\ DisjointTools
  /\ ToolCount(mcp_clients) = 3
  /\ Len(llm[1].tools) = 3

\* The loop has returned exactly when the latest response carries no tool
\* call, and then with that response's content; a response with tool calls
\* keeps the invoke in the loop unless a call raised.
LoopReturnsOnlyWithoutToolCalls ==
  /\ result.kind = "returned" =>
       (chat_resp.tool_calls = <<>> /\ result.value = chat_resp.content /\ pc = "idle")
  /\ (rounds >= 1 /\ chat_resp.tool_calls = <<>>) => result.kind = "returned"
  /\ (rounds >= 1 /\ chat_resp.tool_calls # <<>>) =>
       (pc \in {"tools", "await_model"} \/ result.kind = "raised")
  /\ pc = "await_model" => request # <<>>

\* C18: with every awaited call returning, the loop returns if and only if a
\* response carries no tool call, and then with its content; after a
\* response with tool calls, however many came before, the calls are handled
\* and another model round is started, and a model round in flight is
\* answered.
C18_LoopEndsOnlyWithoutToolCalls ==
  /\ []LoopReturnsOnlyWithoutToolCalls
  /\ (pc = "tools") ~> (pc = "await_model" /\ request # <<>>)
  /\ (pc = "await_model") ~> (pc \in {"tools", "idle"})
  /\ (rounds >= 1 /\ chat_resp.tool_calls = <<>>) ~> (result.kind = "returned")

\* C18's case: as many responses with tool calls as the model allows have
\* been handled and one more model round is in flight.
C18_Witness ==
  /\ pc = "await_model"
  /\ rounds = MaxRounds
  /\ chat_resp.tool_calls # <<>>
  /\ request # <<>>

\* The client call_tool is awaited on for a call (0: none, the call has no
\* owner or an undecodable payload).
CalledClient(call) ==
  InvokeTool(heap, FindClient(heap, mcp_clients, call.name), call, "ok").client

\* C19: each step of a round handles exactly one tool call, the next one in
\* the order of the response, after the results of the calls before it are
\* in; no model request is issued while a call of the round is still to be
\* handled, and the next model round starts only when all are.
C19_CallsOneAtATimeInOrder ==
  [][pc = "tools" =>
       /\ dispatched' # dispatched =>
            /\ Len(dispatched) = tc - 1
            /\ Len(dispatched') = tc
            /\ dispatched'[tc].client = CalledClient(chat_resp.tool_calls[tc])
            /\ nCalls' <= nCalls + 1
            /\ \A k \in DOMAIN dispatched : dispatched'[k] = dispatched[k]
       /\ pc' = "tools" => (request' = <<>> /\ rounds' = rounds)
       /\ pc' = "await_model" =>
            (Len(dispatched') = Len(chat_resp.tool_calls) /\ request' # <<>>)]_vars

\* C19's case: a round of two calls that went to two different clients, with
\* the next model round started after the second.
C19_Witness ==
  /\ pc = "await_model"
  /\ Len(dispatched) = 2
  /\ dispatched[1].client # 0
  /\ dispatched[2].client # 0
  /\ dispatched[1].client # dispatched[2].client

\* C20: a connect step is the connect() of the first client of the list not
\* yet connected, with every client before it connected and no client after
\* it started; it constructs no client; and the llm is constructed only in
\* a step after which every client of the list is connected.  Clients are
\* constructed only by the step that starts the invoke, none of them
\* connected yet.
C20_ConnectsInOrderThenEngine ==
  [][/\ (pc = "connect" /\ heap' # heap) =>
          /\ Len(heap') = Len(heap)
          /\ mcp_clients' = mcp_clients
          /\ \E k \in DOMAIN mcp_clients :
               /\ \A j \in DOMAIN mcp_clients :
                    /\ j < k => (heap[mcp_clients[j]].connected
                                   /\ heap'[mcp_clients[j]] = heap[mcp_clients[j]])
                    /\ j >= k => heap[mcp_clients[j]].connects = 0
                    /\ j > k => heap'[mcp_clients[j]].connects = 0
               /\ heap'[mcp_clients[k]].connects = 1
     /\ Len(heap') > Len(heap) =>
          /\ pc = "idle"
          /\ \A i \in DOMAIN heap' : i > Len(heap) => heap'[i].connects = 0
     /\ (llm' # llm /\ llm' # <<>>) =>
          \A j \in DOMAIN mcp_clients' : heap'[mcp_clients'[j]].connected]_vars

\* C20's case: between the connects of a two-client list, the first client
\* connected, the second not started and no llm yet.
C20_Witness ==
  /\ pc = "connect"
  /\ Len(mcp_clients) = 2
  /\ heap[mcp_clients[1]].connected
  /\ heap[mcp_clients[2]].connects = 0
  /\ llm = <<>>

\* C21: while an invoke runs, the agent's list holds only clients that this
\* invoke constructed, from the configuration it stored, so every tool name
\* resolves to one of them or to none; and the client a tool call is
\* dispatched to is one of them, never a client of an earlier invoke.
C21_ClientsRebuiltPerInvoke ==
  [][/\ pc' # "idle" =>
          \A i \in DOMAIN mcp_clients' :
            /\ heap'[mcp_clients'[i]].born = invokes'
            /\ heap'[mcp_clients'[i]].desc \in Range(current_mcp_configs_from_yaml')
     /\ (pc = "tools" /\ dispatched' # dispatched) =>
          LET c == dispatched'[Len(dispatched')].client IN
          c # 0 => /\ heap[c].born = invokes
                   /\ c \in Range(mcp_clients)
                   /\ heap[c].desc \in Range(yaml_content.mcp_servers)]_vars

\* C21's case: in a second invoke a call was dispatched to a client of that
\* invoke while a client of the first invoke, still connected and never
\* cleaned up, publishes a tool of the same name.
C21_Witness ==
  /\ invokes = 2
  /\ dispatched # <<>>
  /\ dispatched[1].client # 0
  /\ heap[dispatched[1].client].born = 2
  /\ \E i \in DOMAIN heap :
       /\ heap[i].born = 1
       /\ heap[i].connected
       /\ heap[i].closes = 0
       /\ Range(heap[i].tools) \cap Range(heap[dispatched[1].client].tools) # {}

\* C22: over invokes and cleanups on one agent, no client instance has its
\* init() called more than once, and every client Agent._invoke awaits
\* call_tool on has connected successfully (session set, transport open,
\* tools listed) and has not had cleanup() called on it.
C22_ConnectOnceCallOnlyConnected ==
  [][/\ \A i \in DOMAIN heap' : heap'[i].connects <= 1
     /\ (pc = "tools" /\ dispatched' # dispatched) =>
          LET c == dispatched'[Len(dispatched')].client IN
          c # 0 => /\ heap[c].connects = 1
                   /\ heap[c].connected
                   /\ heap[c].session
                   /\ heap[c].stack = 2
                   /\ heap[c].closes = 0]_vars

\* C22's case: invoke, cleanup, invoke; the second invoke called a tool on
\* its own client while the first invoke's client, now closed, lists a tool
\* of the same name.
C22_Witness ==
  /\ ops = <<"invoke", "cleanup", "invoke">>
  /\ dispatched # <<>>
  /\ dispatched[1].client # 0
  /\ heap[dispatched[1].client].closes = 0
  /\ \E i \in DOMAIN heap :
       /\ heap[i].connects = 1
       /\ heap[i].closes = 1
       /\ Range(heap[i].tools) \cap Range(heap[dispatched[1].client].tools) # {}

\* C23: an init() that fails leaves the client without tools; one that fails
\* for want of both url and command enters nothing on the exit stack and sets
\* no session; and a cleanup() of a client whose init() failed with
\* something entered on the exit stack unwinds all of it.
C23_FailedConnectStillReleased ==
  [][\A i \in DOMAIN heap :
       /\ (heap'[i].connects = heap[i].connects + 1 /\ ~heap'[i].connected) =>
            /\ heap'[i].tools = <<>>
            /\ (Falsy(heap[i].url) /\ Falsy(heap[i].command)) =>
                 (heap'[i].stack = heap[i].stack /\ heap'[i].session = heap[i].session)
       /\ (heap'[i].closes = heap[i].closes + 1
             /\ LifecycleState(heap[i]) = "FAILED" /\ heap[i].stack > 0) =>
            /\ heap'[i].stack = 0
            /\ heap'[i].released = heap[i].released + 1
            /\ heap'[i].tools = <<>>]_vars

\* C23's case: a client whose init() failed at the handshake, with transport
\* and session entered, has been cleaned up and its exit stack unwound.
C23_Witness ==
  \E i \in DOMAIN heap :
    /\ heap[i].connects = 1
    /\ ~heap[i].connected
    /\ heap[i].session
    /\ heap[i].tools = <<>>
    /\ heap[i].closes = 1
    /\ heap[i].released = 1
    /\ heap[i].stack = 0

====
